---------------------------- MODULE Spec2Model ----------------------------
(***************************************************************************)
(* node-red-function-sync: extract / sync / migrate of Node-RED function   *)
(* nodes between flows.json (the document) and a tree of script files.     *)
(*                                                                         *)
(* Texts (file contents, script bodies, names, ids) are sequences of       *)
(* lexemes.  A lexeme is a single character ("a", " ", "\n", ...) or one   *)
(* of the fixed multi-character literals the code's regular expressions    *)
(* and templates are made of:                                              *)
(*   "HDR"      module.exports = function (...) {                          *)
(*   "AHDR"     module.exports = async function (...) {                    *)
(*   "};"       the closing token of the wrapper                           *)
(*   "/**"      the opening of a doc comment                               *)
(*   "/*L"      the opening of a legacy block: /* flows.json attributes    *)
(*   "*/"       the closing of a comment                                   *)
(*   "@nr-id" "@nr-name" "@nr-z"      the tags of the structured block     *)
(*   "K:id" "K:name" "K:z" "K:tabId"  a quoted key and its colon           *)
(*   QT         a double quote                                             *)
(***************************************************************************)
EXTENDS Integers, Sequences, FiniteSets, TLC

VARIABLES
    doc,      \* flows.json: the sequence of node records
    files,    \* the script root: path -> content, a path is <<dir, file>>
    dirs,     \* the directories that exist; <<>> is the script root itself
    last,     \* the last invocation: what ran, on what, and how it ended
    steps,    \* invocations and edits so far
    arg,      \* input of a pure function under check
    res       \* its result

vars == <<doc, files, dirs, last, steps, arg, res>>

---------------------------------------------------------------------------
(* Bounds *)

\* longest script body drawn for the wrap / unwrap checks
MaxBodyLen == 3

\* most blocks of a file drawn for the metadata checks
MaxBlocks == 3

\* most invocations and edits of one run of the tools
MaxSteps == 3

---------------------------------------------------------------------------
(* Text primitives *)

NL == "\n"
SP == " "
QT == "\""

\* what JavaScript's \s and trim() treat as white space
IsWs(t) == t \in {SP, NL}

\* JavaScript undefined (an absent field); never equal to a text
Undef == <<"\\undefined">>

\* x || '' and the truthiness of a string
Falsy(x) == x = Undef \/ x = <<>>
OrEmpty(x) == IF Falsy(x) THEN <<>> ELSE x

\* `${x}` in a template literal
Str(x) == IF x = Undef THEN <<"u","n","d","e","f","i","n","e","d">> ELSE x

MinOf(S) == CHOOSE x \in S : \A y \in S : x <= y
MaxOf(S) == CHOOSE x \in S : \A y \in S : y <= x

\* String.prototype.trim
Trim(s) ==
    LET keep == {i \in 1..Len(s) : ~IsWs(s[i])}
    IN IF keep = {} THEN <<>> ELSE SubSeq(s, MinOf(keep), MaxOf(keep))

TrimStart(s) ==
    LET keep == {i \in 1..Len(s) : ~IsWs(s[i])}
    IN IF keep = {} THEN <<>> ELSE SubSeq(s, MinOf(keep), Len(s))

TrimEnd(s) ==
    LET keep == {i \in 1..Len(s) : ~IsWs(s[i])}
    IN IF keep = {} THEN <<>> ELSE SubSeq(s, 1, MaxOf(keep))

\* indexOf / lastIndexOf of one lexeme, 1-based, 0 when absent
IndexOf(s, t) ==
    LET at == {i \in 1..Len(s) : s[i] = t}
    IN IF at = {} THEN 0 ELSE MinOf(at)

LastIndexOf(s, t) ==
    LET at == {i \in 1..Len(s) : s[i] = t}
    IN IF at = {} THEN 0 ELSE MaxOf(at)

\* s.split('\n')
RECURSIVE SplitLines(_)
SplitLines(s) ==
    LET i == IndexOf(s, NL)
    IN IF i = 0 THEN <<s>>
       ELSE <<SubSeq(s, 1, i - 1)>> \o SplitLines(SubSeq(s, i + 1, Len(s)))

\* lines.join('\n')
RECURSIVE JoinLines(_)
JoinLines(ls) ==
    IF Len(ls) = 0 THEN <<>>
    ELSE IF Len(ls) = 1 THEN ls[1]
    ELSE ls[1] \o <<NL>> \o JoinLines(Tail(ls))

\* s.endsWith(suf), s.includes(sub) on character sequences
EndsWith(s, suf) ==
    Len(s) >= Len(suf) /\ SubSeq(s, Len(s) - Len(suf) + 1, Len(s)) = suf

Includes(s, sub) ==
    \E i \in 1..(Len(s) - Len(sub) + 1) : SubSeq(s, i, i + Len(sub) - 1) = sub

---------------------------------------------------------------------------
(* utils.ts: the two metadata patterns *)

\* first match of a comment that opens with `open`: the leftmost opening that
\* has a closing after it, up to the nearest closing (lazy [\s\S]*?)
CommentMatch(s, open) ==
    LET opens == {i \in 1..Len(s) : s[i] = open /\ \E j \in (i+1)..Len(s) : s[j] = "*/"}
    IN IF opens = {} THEN [found |-> FALSE, from |-> 0, to |-> 0, group |-> <<>>]
       ELSE LET i == MinOf(opens)
                j == MinOf({k \in (i+1)..Len(s) : s[k] = "*/"})
            IN [found |-> TRUE, from |-> i, to |-> j, group |-> SubSeq(s, i + 1, j - 1)]

\* content.match(JSDOC_METADATA_REGEX): \s* after the opening is outside the group
JSDOC_METADATA_REGEX(s) ==
    LET m == CommentMatch(s, "/**")
    IN [m EXCEPT !.group = TrimStart(m.group)]

\* content.match(METADATA_REGEX)
METADATA_REGEX(s) == CommentMatch(s, "/*L")

\* content.replace(regex, '')
RemoveMatch(s, m) ==
    IF m.found THEN SubSeq(s, 1, m.from - 1) \o SubSeq(s, m.to + 1, Len(s)) ELSE s

---------------------------------------------------------------------------
(* utils.ts: wrapScriptContent / prepareScriptContent *)

Indent == <<SP, SP, SP, SP>>

IndentLine(line) == IF Trim(line) # <<>> THEN Indent \o line ELSE line

IndentBody(funcBody) ==
    LET ls == SplitLines(funcBody)
    IN JoinLines([i \in 1..Len(ls) |-> IndentLine(ls[i])])

wrapScriptContent(nodeId, nodeName, funcBody, z) ==
    Trim( <<"HDR", NL>> \o IndentBody(funcBody) \o <<NL, "};", NL, NL>>
          \o <<"/**", NL>>
          \o <<SP, "*", SP, "@nr-id", SP>> \o Str(nodeId) \o <<NL>>
          \o <<SP, "*", SP, "@nr-name", SP>> \o Str(OrEmpty(nodeName)) \o <<NL>>
          \o <<SP, "*", SP, "@nr-z", SP>> \o Str(z) \o <<NL>>
          \o <<SP, "*/", NL>> )
    \o <<NL>>

IsHdr(t) == t \in {"HDR", "AHDR"}

\* step 1: rawContent.replace(JSDOC_METADATA_REGEX, '').replace(METADATA_REGEX, '')
RemoveJsdoc(s) == RemoveMatch(s, JSDOC_METADATA_REGEX(s))
RemoveLegacy(s) == RemoveMatch(s, METADATA_REGEX(s))

\* the interior up to the last "};" of what follows the wrapper's opening
CutAtLastBrace(rest) ==
    IF LastIndexOf(rest, "};") # 0
    THEN Trim(SubSeq(rest, 1, LastIndexOf(rest, "};") - 1))
    ELSE Trim(rest)

\* step 2: strip the module.exports wrapper when its opening is found
StripWrapper(content) ==
    LET hdrs == {i \in 1..Len(content) : IsHdr(content[i])}
    IN IF hdrs = {} THEN content
       ELSE CutAtLastBrace(SubSeq(content, MinOf(hdrs) + 1, Len(content)))

prepareScriptContent(rawContent) ==
    StripWrapper(Trim(RemoveLegacy(RemoveJsdoc(rawContent))))

---------------------------------------------------------------------------
(* utils.ts: getMetadata *)

\* a decoded Metadata; ok = FALSE is null
NoMeta == [ok |-> FALSE, id |-> Undef, name |-> Undef, z |-> Undef]

\* line.match(/@nr-xx\s+(.+)/): the tag, at least one white space, at least
\* one more character; the value is the rest of the line, trimmed by the caller
TagMatch(line, tag) ==
    LET at == {p \in 1..Len(line) :
                  line[p] = tag /\ p + 2 <= Len(line) /\ IsWs(line[p + 1])}
    IN IF at = {} THEN [found |-> FALSE, value |-> <<>>]
       ELSE [found |-> TRUE, value |-> Trim(SubSeq(line, MinOf(at) + 1, Len(line)))]

\* the loop over the lines of the block: a later line overwrites an earlier one
TagOf(lines, tag) ==
    LET hits == {i \in 1..Len(lines) : TagMatch(lines[i], tag).found}
    IN IF hits = {} THEN Undef ELSE TagMatch(lines[MaxOf(hits)], tag).value

\* metaStr.replace(/,\s*}/g, '}')
RECURSIVE StripTrailingCommas(_)
StripTrailingCommas(s) ==
    IF s = <<>> THEN <<>>
    ELSE IF s[1] = ","
         THEN LET r == TrimStart(Tail(s))
              IN IF r # <<>> /\ r[1] = "}"
                 THEN StripTrailingCommas(r)
                 ELSE <<",">> \o StripTrailingCommas(Tail(s))
         ELSE <<s[1]>> \o StripTrailingCommas(Tail(s))

JsonKeys == {"K:id", "K:name", "K:z", "K:tabId"}

NoData == [k \in JsonKeys |-> Undef]

\* JSON.parse of an object of string members; ok = FALSE is a SyntaxError.
\* st: "start" before the brace, "first" / "key" before a key, "val" before a
\* value, "str" inside a string, "sep" after a member, "end" after the object
RECURSIVE JsonParse(_, _, _, _, _)
JsonParse(s, st, key, cur, acc) ==
    IF s = <<>> THEN [ok |-> st = "end", data |-> acc]
    ELSE LET t == s[1]
             r == Tail(s)
             fail == [ok |-> FALSE, data |-> acc]
         IN IF st = "str"
            THEN IF t = QT THEN JsonParse(r, "sep", key, <<>>, [acc EXCEPT ![key] = cur])
                 ELSE IF t = NL THEN fail
                 ELSE JsonParse(r, "str", key, cur \o <<t>>, acc)
            ELSE IF IsWs(t) THEN JsonParse(r, st, key, cur, acc)
            ELSE IF st = "start"
                 THEN IF t = "{" THEN JsonParse(r, "first", key, cur, acc) ELSE fail
            ELSE IF st = "first" /\ t = "}" THEN JsonParse(r, "end", key, cur, acc)
            ELSE IF st \in {"first", "key"}
                 THEN IF t \in JsonKeys THEN JsonParse(r, "val", t, cur, acc) ELSE fail
            ELSE IF st = "val"
                 THEN IF t = QT THEN JsonParse(r, "str", key, <<>>, acc) ELSE fail
            ELSE IF st = "sep"
                 THEN IF t = "," THEN JsonParse(r, "key", key, cur, acc)
                      ELSE IF t = "}" THEN JsonParse(r, "end", key, cur, acc)
                      ELSE fail
            ELSE fail

\* the legacy block of a content, as getMetadata, findFileById and the old
\* index builders read it: found = the pattern matched with a non-empty
\* interior, ok = the interior parsed
Braced(metaStr) ==
    IF metaStr[1] # "{" THEN <<"{">> \o metaStr \o <<"}">> ELSE metaStr

ParsedBlock(p) == [found |-> TRUE, ok |-> p.ok, data |-> p.data]

LegacyInterior(metaStr) ==
    IF metaStr = <<>>
    THEN [found |-> FALSE, ok |-> FALSE, data |-> NoData]
    ELSE ParsedBlock(JsonParse(StripTrailingCommas(Braced(metaStr)),
                               "start", "K:id", <<>>, NoData))

LegacyMatch(m) ==
    IF ~m.found
    THEN [found |-> FALSE, ok |-> FALSE, data |-> NoData]
    ELSE LegacyInterior(Trim(m.group))

LegacyBlock(content) == LegacyMatch(METADATA_REGEX(content))

\* the tags of the lines of a doc comment: meta as the loop leaves it
TagsOf(lines) ==
    [id |-> TagOf(lines, "@nr-id"),
     name |-> TagOf(lines, "@nr-name"),
     z |-> TagOf(lines, "@nr-z")]

JsdocTags(jm) ==
    IF jm.found /\ jm.group # <<>>
    THEN TagsOf(SplitLines(jm.group))
    ELSE [id |-> Undef, name |-> Undef, z |-> Undef]

\* a variant of DecodeMeta that takes a structured block with an id alone
DecodeMeta_IdOnly(tags, old) ==
    IF ~Falsy(tags.id)
    THEN [ok |-> TRUE, id |-> tags.id, name |-> tags.name, z |-> tags.z]
    ELSE IF old.found /\ old.ok
         THEN [ok |-> TRUE,
               id |-> old.data["K:id"],
               name |-> old.data["K:name"],
               z |-> IF ~Falsy(old.data["K:z"]) THEN old.data["K:z"]
                     ELSE OrEmpty(old.data["K:tabId"])]
         ELSE NoMeta

\* a variant of DecodeMeta that reads tabId before z
DecodeMeta_TabIdFirst(tags, old) ==
    IF ~Falsy(tags.id) /\ ~Falsy(tags.z)
    THEN [ok |-> TRUE, id |-> tags.id, name |-> tags.name, z |-> tags.z]
    ELSE IF old.found /\ old.ok
         THEN [ok |-> TRUE,
               id |-> old.data["K:id"],
               name |-> old.data["K:name"],
               z |-> IF ~Falsy(old.data["K:tabId"]) THEN old.data["K:tabId"]
                     ELSE OrEmpty(old.data["K:z"])]
         ELSE NoMeta

\* 1. the structured block when it has an id and a z; 2. else the legacy
\* block when it parses; else null
DecodeMeta(tags, old) ==
    IF ~Falsy(tags.id) /\ ~Falsy(tags.z)
    THEN [ok |-> TRUE, id |-> tags.id, name |-> tags.name, z |-> tags.z]
    ELSE IF old.found /\ old.ok
         THEN [ok |-> TRUE,
               id |-> old.data["K:id"],
               name |-> old.data["K:name"],
               z |-> IF ~Falsy(old.data["K:z"]) THEN old.data["K:z"]
                     ELSE OrEmpty(old.data["K:tabId"])]
         ELSE NoMeta

getMetadata(content) ==
    DecodeMeta(JsdocTags(JSDOC_METADATA_REGEX(content)), LegacyBlock(content))

---------------------------------------------------------------------------
(* extract.ts / migrate: sanitize *)

UpperCase == <<"A","B","C","D","E","F","G","H","I","J","K","L","M",
               "N","O","P","Q","R","S","T","U","V","W","X","Y","Z">>
LowerCase == <<"a","b","c","d","e","f","g","h","i","j","k","l","m",
               "n","o","p","q","r","s","t","u","v","w","x","y","z">>
Digits == <<"0","1","2","3","4","5","6","7","8","9">>

Range(f) == {f[i] : i \in DOMAIN f}

\* c.toLowerCase()
ToLower(c) ==
    IF c \in Range(UpperCase)
    THEN LowerCase[CHOOSE i \in 1..Len(UpperCase) : UpperCase[i] = c]
    ELSE c

\* [a-z0-9]
IsAlnum(c) == c \in Range(LowerCase) \cup Range(Digits)

\* .replace(/[^a-z0-9]+/g, '-')
RECURSIVE DashRuns(_, _)
DashRuns(s, inRun) ==
    IF s = <<>> THEN <<>>
    ELSE IF IsAlnum(s[1]) THEN <<s[1]>> \o DashRuns(Tail(s), FALSE)
    ELSE IF inRun THEN DashRuns(Tail(s), TRUE)
    ELSE <<"-">> \o DashRuns(Tail(s), TRUE)

\* .replace(/^-+|-+$/g, '')
StripDashes(s) ==
    LET keep == {i \in 1..Len(s) : s[i] # "-"}
    IN IF keep = {} THEN <<>> ELSE SubSeq(s, MinOf(keep), MaxOf(keep))

sanitize(name) ==
    StripDashes(DashRuns([i \in 1..Len(name) |-> ToLower(name[i])], FALSE))

---------------------------------------------------------------------------
(* The script root: directories, files and the order of a walk *)

\* the characters of file and directory names, in code-unit order
CodeOrder == <<"-", ".">> \o Digits \o LowerCase

CodeOf(c) == CHOOSE i \in 1..Len(CodeOrder) : CodeOrder[i] = c

\* a < b for names, as the directory listing orders them
RECURSIVE NameLess(_, _)
NameLess(a, b) ==
    IF b = <<>> THEN FALSE
    ELSE IF a = <<>> THEN TRUE
    ELSE IF a[1] = b[1] THEN NameLess(Tail(a), Tail(b))
    ELSE CodeOf(a[1]) < CodeOf(b[1])

RECURSIVE SortNames(_)
SortNames(S) ==
    IF S = {} THEN <<>>
    ELSE LET m == CHOOSE x \in S : \A y \in S \ {x} : NameLess(x, y)
         IN <<m>> \o SortNames(S \ {m})

Root == <<>>
JS == <<".", "j", "s">>
TS == <<".", "t", "s">>

NoFiles == [p \in {} |-> <<>>]

\* the content of a file that readFileSync throws on (EACCES)
Unreadable == <<"\\EACCES">>

WriteFile(fs, p, c) == [q \in (DOMAIN fs) \cup {p} |-> IF q = p THEN c ELSE fs[q]]
RemoveFile(fs, p) == [q \in (DOMAIN fs) \ {p} |-> fs[q]]

\* fs.renameSync(from, to): the target is replaced when it exists
RenameFile(fs, from, to) == RemoveFile(WriteFile(fs, to, fs[from]), from)

\* fs.readdirSync(dir): the names of a directory, files and directories
FilesIn(fs, dir) == {p[2] : p \in {q \in DOMAIN fs : q[1] = dir}}
SubDirs(ds) == ds \ {Root}
ReadDir(fs, ds, dir) ==
    IF dir = Root THEN SortNames(FilesIn(fs, Root) \cup SubDirs(ds))
    ELSE SortNames(FilesIn(fs, dir))

\* file.endsWith('.js') || file.endsWith('.ts')
IsScript(file) == EndsWith(file, JS) \/ EndsWith(file, TS)

\* file.includes('.spec.') || file.includes('.test.')
IsExcluded(file) ==
    \/ Includes(file, <<".", "s", "p", "e", "c", ".">>)
    \/ Includes(file, <<".", "t", "e", "s", "t", ".">>)

\* the paths of the script files in the order a read-only walk visits them
RECURSIVE WalkPaths(_, _, _, _)
WalkPaths(fs, ds, dir, names) ==
    IF names = <<>> THEN <<>>
    ELSE (IF dir = Root /\ names[1] \in SubDirs(ds)
          THEN WalkPaths(fs, ds, names[1], ReadDir(fs, ds, names[1]))
          ELSE IF IsScript(names[1]) THEN << <<dir, names[1]>> >> ELSE <<>>)
         \o WalkPaths(fs, ds, dir, Tail(names))

Walk(fs, ds) ==
    IF Root \in ds THEN WalkPaths(fs, ds, Root, ReadDir(fs, ds, Root)) ELSE <<>>

---------------------------------------------------------------------------
(* The document *)

Global == <<"g","l","o","b","a","l">>
Unnamed == <<"u","n","n","a","m","e","d">>

\* the tabMap of extract and migrate: id -> label of a tab, name of a subflow
IsContainer(n) == n.type \in {"tab", "subflow"}

ContainerLabel(n) ==
    IF n.type = "tab"
    THEN (IF Falsy(n.label) THEN Unnamed ELSE n.label)
    ELSE (IF Falsy(n.name) THEN Unnamed ELSE n.name)

\* tabMap.get(z) || 'global'
TabName(nodes, z) ==
    LET hits == {i \in 1..Len(nodes) : IsContainer(nodes[i]) /\ nodes[i].id = z}
    IN IF hits = {} THEN Global ELSE ContainerLabel(nodes[MaxOf(hits)])

\* flows.find(n => n.id === nodeId): the first node of that id, 0 when none
FindNode(nodes, nodeId) ==
    LET hits == {i \in 1..Len(nodes) : nodes[i].id = nodeId}
    IN IF hits = {} THEN 0 ELSE MinOf(hits)

\* new Map(flows.map(node => [node.id, node])).get(nodeId): the last one
FlowMapGet(nodes, nodeId) ==
    LET hits == {i \in 1..Len(nodes) : nodes[i].id = nodeId}
    IN IF hits = {} THEN 0 ELSE MaxOf(hits)

---------------------------------------------------------------------------
(* extract.ts: findFileById, updateFileContent, run *)

NoPath == <<Root, <<>>>>

\* meta.id === nodeId on a legacy block that was found and parsed; a block
\* that does not parse throws inside the try and the file is passed
LegacyIdIs(b, nodeId) == b.found /\ b.ok /\ b.data["K:id"] = nodeId

FirstPath(w, hits) == IF hits = {} THEN NoPath ELSE w[MinOf(hits)]

FirstWithId(nodeId, fs, w) ==
    FirstPath(w, {i \in 1..Len(w) : LegacyIdIs(LegacyBlock(fs[w[i]]), nodeId)})

\* the first file of the walk whose legacy block carries nodeId
findFileById(nodeId, fs, ds) == FirstWithId(nodeId, fs, Walk(fs, ds))

\* wrapScriptContent(nodeId, '', newFuncBody, z), trimmed and newline-ended
updateFileContent(nodeId, newFuncBody, z) ==
    Trim(wrapScriptContent(nodeId, <<>>, newFuncBody, z)) \o <<NL>>

\* a variant of TargetDir that files every node under the folder of no container
TargetDir_Flat(nodes, node) == sanitize(Global)

\* the canonical path of a node: SRC_DIR/<slug of tab name>/<slug of name>.js
TargetDir(nodes, node) == sanitize(TabName(nodes, node.z))
TargetFilename(node) ==
    sanitize(IF Falsy(node.name) THEN node.id ELSE node.name) \o JS
TargetPath(nodes, node) == <<TargetDir(nodes, node), TargetFilename(node)>>

\* the file was found: move it when it is not at the target, then rewrite it
ExtractUpdate(fs, ds, found, targetPath, newContent) ==
    IF found # targetPath
    THEN [exit |-> 0,
          files |-> WriteFile(RenameFile(fs, found, targetPath), targetPath, newContent),
          dirs |-> ds \cup {targetPath[1]}]
    ELSE [exit |-> 0, files |-> WriteFile(fs, found, newContent), dirs |-> ds]

\* no file was found: create the target directory and the file
ExtractCreate(fs, ds, targetPath, initialContent) ==
    [exit |-> 0, files |-> WriteFile(fs, targetPath, initialContent),
     dirs |-> ds \cup {targetPath[1]}]

\* run() from the node on; ds holds SRC_DIR, created when it was missing
ExtractNode(targetNode, targetPath, found, fs, ds) ==
    IF found # NoPath
    THEN ExtractUpdate(fs, ds, found, targetPath,
            updateFileContent(targetNode.id, OrEmpty(targetNode.func), targetNode.z))
    ELSE ExtractCreate(fs, ds, targetPath,
            wrapScriptContent(targetNode.id, OrEmpty(targetNode.name),
                              OrEmpty(targetNode.func), targetNode.z))

ExtractFound(d, targetNode, fs, ds, nodeId) ==
    ExtractNode(targetNode, TargetPath(d.nodes, targetNode),
                findFileById(nodeId, fs, ds), fs, ds)

\* a variant of run() that creates SRC_DIR before it looks for the node
ExtractRun_MkdirFirst(d, fs, ds, nodeId) ==
    IF ~d.ok \/ Falsy(nodeId) \/ FindNode(d.nodes, nodeId) = 0
    THEN [exit |-> 1, files |-> fs, dirs |-> ds \cup {Root}]
    ELSE ExtractFound(d, d.nodes[FindNode(d.nodes, nodeId)], fs, ds \cup {Root}, nodeId)

\* run() of nr-extract with a node id: [exit, files, dirs]
ExtractRun(d, fs, ds, nodeId) ==
    IF ~d.ok \/ Falsy(nodeId) \/ FindNode(d.nodes, nodeId) = 0
    THEN [exit |-> 1, files |-> fs, dirs |-> ds]
    ELSE ExtractFound(d, d.nodes[FindNode(d.nodes, nodeId)], fs, ds \cup {Root}, nodeId)

---------------------------------------------------------------------------
(* nr-sync: scanScripts, run *)

\* the metadata of the script files of a walk
WalkMeta(fs, w) == [i \in 1..Len(w) |-> getMetadata(fs[w[i]])]

\* updates[meta.id] = {file, name, z, content} for every file whose metadata
\* decodes with a non-empty id: a later file of the walk replaces an earlier
\* one of the same id
Updates(fs, w, m) ==
    LET got == {i \in 1..Len(w) : m[i].ok /\ ~Falsy(m[i].id)}
    IN [id \in {m[i].id : i \in got} |->
          LET k == MaxOf({i \in got : m[i].id = id})
          IN [file |-> w[k], name |-> m[k].name, z |-> m[k].z, content |-> fs[w[k]]]]

ScanWalk(fs, w) == Updates(fs, w, WalkMeta(fs, w))

scanScripts(fs, ds) == ScanWalk(fs, Walk(fs, ds))

\* a variant of SyncFields that also renames the node after the script
SyncFields_Renames(node, newFunc, z) ==
    [node EXCEPT !.func = newFunc, !.name = newFunc]

\* a variant of SyncFields that never moves the node to another container
SyncFields_KeepsZ(node, newFunc, z) ==
    [node EXCEPT !.func = IF node.func # newFunc THEN newFunc ELSE node.func]

\* the body of the loop over the collected scripts, for one matched node
SyncFields(node, newFunc, z) ==
    [node EXCEPT !.func = IF node.func # newFunc THEN newFunc ELSE node.func,
                 !.z = IF ~Falsy(z) /\ node.z # z THEN z ELSE node.z]

SyncNode(node, data) == SyncFields(node, prepareScriptContent(data.content), data.z)

\* a variant of SyncNodes that gives up the whole loop at an id no node has
SyncNodes_AllOrNothing(nodes, scriptUpdates) ==
    IF \E id \in DOMAIN scriptUpdates : FlowMapGet(nodes, id) = 0 THEN nodes
    ELSE [i \in 1..Len(nodes) |->
            LET ids == {id \in DOMAIN scriptUpdates : FlowMapGet(nodes, id) = i}
            IN IF ids = {} THEN nodes[i]
               ELSE SyncNode(nodes[i], scriptUpdates[CHOOSE id \in ids : TRUE])]

\* the nodes after the loop: flowMap.get(nodeId) is the last node of an id
SyncNodes(nodes, scriptUpdates) ==
    [i \in 1..Len(nodes) |->
        LET ids == {id \in DOMAIN scriptUpdates : FlowMapGet(nodes, id) = i}
        IN IF ids = {} THEN nodes[i]
           ELSE SyncNode(nodes[i], scriptUpdates[CHOOSE id \in ids : TRUE])]

\* a variant of SyncWrite that writes the document whatever the count
SyncWrite_Always(d, flows) ==
    [exit |-> 0, doc |-> [d EXCEPT !.nodes = flows], wrote |-> TRUE,
     updated |-> Cardinality({i \in 1..Len(flows) : flows[i] # d.nodes[i]})]

\* updatedCount > 0: write the document
SyncWrite(d, flows) ==
    IF flows # d.nodes
    THEN [exit |-> 0, doc |-> [d EXCEPT !.nodes = flows], wrote |-> TRUE,
          updated |-> Cardinality({i \in 1..Len(flows) : flows[i] # d.nodes[i]})]
    ELSE [exit |-> 0, doc |-> d, wrote |-> FALSE, updated |-> 0]

SyncApply(d, scriptUpdates) ==
    IF DOMAIN scriptUpdates = {}
    THEN [exit |-> 0, doc |-> d, wrote |-> FALSE, updated |-> 0]
    ELSE IF ~d.ok THEN [exit |-> 1, doc |-> d, wrote |-> FALSE, updated |-> 0]
    ELSE SyncWrite(d, SyncNodes(d.nodes, scriptUpdates))

\* run() of nr-sync: [exit, doc, wrote]
SyncRun(d, fs, ds) ==
    IF Root \notin ds THEN [exit |-> 1, doc |-> d, wrote |-> FALSE, updated |-> 0]
    ELSE SyncApply(d, scanScripts(fs, ds))

---------------------------------------------------------------------------
(* nr-migrate: migrate, walk *)

\* nodeZMap: id -> z of the function nodes, the last node of an id
NodeZHas(nodes, id) ==
    \E i \in 1..Len(nodes) : nodes[i].type = "function" /\ nodes[i].id = id
NodeZGet(nodes, id) ==
    nodes[MaxOf({i \in 1..Len(nodes) :
                    nodes[i].type = "function" /\ nodes[i].id = id})].z

\* 2. the container id of the metadata, or the node's when it has none
ResolveZ(meta, d, loaded) ==
    IF loaded /\ NodeZHas(d.nodes, meta.id) /\ Falsy(meta.z)
    THEN NodeZGet(d.nodes, meta.id) ELSE meta.z

\* a variant of NeedsConvert that rewrites a file whatever its format
NeedsConvert_Always(content) == TRUE

\* !hasJSDoc && hasOld
NeedsConvert(content) ==
    ~JSDOC_METADATA_REGEX(content).found /\ METADATA_REGEX(content).found

\* 4. the content in the structured form when it has the legacy block only
MigrateContent(content, meta, z, convert) ==
    IF convert
    THEN wrapScriptContent(meta.id, OrEmpty(meta.name), prepareScriptContent(content), z)
    ELSE content

\* 5. the path under the folder of the container, when --flows was given
MigrateTarget(filepath, z, d, flowsPath, loaded) ==
    IF ~flowsPath THEN filepath
    ELSE <<sanitize(IF loaded THEN TabName(d.nodes, z) ELSE Global), filepath[2]>>

\* the write and the rename of one file; st = [files, dirs, migrated, moved]
MigrateApply(st, filepath, convert, currentContent, targetPath) ==
    [files |-> IF targetPath # filepath
               THEN RenameFile(WriteFile(st.files, filepath, currentContent),
                               filepath, targetPath)
               ELSE WriteFile(st.files, filepath, currentContent),
     dirs |-> IF targetPath # filepath THEN st.dirs \cup {targetPath[1]} ELSE st.dirs,
     migrated |-> st.migrated + (IF convert THEN 1 ELSE 0),
     moved |-> st.moved + (IF targetPath # filepath THEN 1 ELSE 0),
     thrown |-> st.thrown]

MigrateConvert(st, filepath, meta, z, d, flowsPath, loaded, convert) ==
    MigrateApply(st, filepath, convert,
                 MigrateContent(st.files[filepath], meta, z, convert),
                 MigrateTarget(filepath, z, d, flowsPath, loaded))

\* 3. skip the file when there is still no container id
MigrateResolved(st, filepath, meta, z, d, flowsPath, loaded) ==
    IF Falsy(z) THEN st
    ELSE MigrateConvert(st, filepath, meta, z, d, flowsPath, loaded,
                        NeedsConvert(st.files[filepath]))

\* 1. skip the file when no metadata decodes
MigrateMeta(st, filepath, meta, d, flowsPath, loaded) ==
    IF ~meta.ok THEN st
    ELSE MigrateResolved(st, filepath, meta, ResolveZ(meta, d, loaded),
                         d, flowsPath, loaded)

\* one eligible file of the walk
MigrateRead(st, filepath, d, flowsPath) ==
    MigrateMeta(st, filepath, getMetadata(st.files[filepath]), d, flowsPath,
                flowsPath /\ d.ok)

\* readFileSync stands outside any try: its exception ends the walk
MigrateFile(st, filepath, d, flowsPath) ==
    IF st.files[filepath] = Unreadable THEN [st EXCEPT !.thrown = TRUE]
    ELSE MigrateRead(st, filepath, d, flowsPath)

\* walk(dir) over the names readdirSync returned when the directory was entered
RECURSIVE MigrateWalk(_, _, _, _, _)
MigrateWalk(st, dir, names, d, flowsPath) ==
    IF names = <<>> \/ st.thrown THEN st
    ELSE MigrateWalk(
            IF dir = Root /\ names[1] \in SubDirs(st.dirs)
            THEN MigrateWalk(st, names[1], ReadDir(st.files, st.dirs, names[1]),
                             d, flowsPath)
            ELSE IF /\ IsScript(names[1])
                    /\ ~IsExcluded(names[1])
                    /\ <<dir, names[1]>> \in DOMAIN st.files
                 THEN MigrateFile(st, <<dir, names[1]>>, d, flowsPath)
                 ELSE st,
            dir, Tail(names), d, flowsPath)

MigrateDone(st) ==
    [exit |-> IF st.thrown THEN 1 ELSE 0, files |-> st.files, dirs |-> st.dirs,
     migrated |-> st.migrated, moved |-> st.moved]

\* migrate(): [exit, files, dirs, migrated, moved]; flowsPath = --flows was given
MigrateRun(d, fs, ds, flowsPath) ==
    IF Root \notin ds
    THEN [exit |-> 1, files |-> fs, dirs |-> ds, migrated |-> 0, moved |-> 0]
    ELSE MigrateDone(MigrateWalk([files |-> fs, dirs |-> ds, migrated |-> 0, moved |-> 0,
                                  thrown |-> FALSE],
                                 Root, ReadDir(fs, ds, Root), d, flowsPath))

---------------------------------------------------------------------------
(* Values the checks draw from *)

Id_n1 == <<"n", "1">>
Id_n2 == <<"n", "2">>
Id_n9 == <<"n", "9">>
Id_t1 == <<"t", "1">>
Id_s1 == <<"s", "1">>
Id_i1 == <<"i", "1">>

\* a node record of flows.json; an absent field is Undef; wires stands for
\* the fields the tools pass through
Node(id, type, name, label, z, func) ==
    [id |-> id, type |-> type, name |-> name, label |-> label, z |-> z,
     func |-> func, wires |-> <<id>>]

\* a tab "A b", a subflow "S", two function nodes named "F" and a node of
\* another type
Doc0 ==
    [ok |-> TRUE,
     nodes |-> << Node(Id_t1, "tab", Undef, <<"A", SP, "b">>, Undef, Undef),
                  Node(Id_s1, "subflow", <<"S">>, Undef, Undef, Undef),
                  Node(Id_n1, "function", <<"F">>, Undef, Id_t1, <<"a">>),
                  Node(Id_n2, "function", <<"F">>, Undef, Id_s1, <<"a", NL, "b">>),
                  Node(Id_i1, "inject", <<"I">>, Undef, Id_t1, Undef) >>]

\* the legacy block as the versions before 2.0.0 wrote it: id, name and, with
\* zkey, a container id under that key
LegacyText(id, name, zkey, z) ==
    <<"/*L", NL>>
    \o Indent \o <<"K:id", SP, QT>> \o id \o <<QT, ",", NL>>
    \o Indent \o <<"K:name", SP, QT>> \o name \o <<QT>>
    \o (IF zkey = "" THEN <<>>
        ELSE <<",", NL>> \o Indent \o <<zkey, SP, QT>> \o z \o <<QT>>)
    \o <<NL, "*/">>

\* a file as those versions wrote it: the wrapped body, then the legacy block
LegacyFile(id, name, zkey, z, body) ==
    <<"HDR", NL>> \o IndentBody(body) \o <<NL, "};", NL, NL>>
    \o LegacyText(id, name, zkey, z) \o <<NL>>

DocComment == <<"/**", SP, "a", SP, "*/">>

F_JS == <<"f">> \o JS
G_JS == <<"g">> \o JS
G_SPEC_JS == <<"g", ".", "s", "p", "e", "c">> \o JS

\* the script files a run may start with
SeedA == [path |-> <<Root, F_JS>>,
          content |-> LegacyFile(Id_n1, <<"F">>, "", <<>>, <<"b">>)]
SeedB == [path |-> <<Root, G_JS>>,
          content |-> LegacyFile(Id_n2, <<"F">>, "K:tabId", Id_t1, <<"b">>)]
SeedC == [path |-> <<sanitize(<<"A", SP, "b">>), G_SPEC_JS>>,
          content |-> LegacyFile(Id_n2, <<"F">>, "K:z", Id_t1, <<"c">>)]
SeedAd == [path |-> <<Root, F_JS>>,
           content |-> LegacyFile(Id_n1, <<"F">>, "", <<>>, DocComment \o <<NL, "b">>)]
SeedBd == [path |-> <<Root, G_JS>>,
           content |-> LegacyFile(Id_n2, <<"F">>, "K:tabId", Id_t1,
                                  DocComment \o <<NL, "b">>)]

\* a file with the legacy block of n1 in t1 and no wrapper around its script
W_JS == <<"w">> \o JS
SeedW == [path |-> <<Root, W_JS>>,
          content |-> <<"c", NL>> \o LegacyText(Id_n1, <<"F">>, "K:z", Id_t1) \o <<NL>>]
\* a file in the structured format whose id no node of the document has
N_JS == <<"n">> \o JS
SeedN == [path |-> <<Root, N_JS>>,
          content |-> wrapScriptContent(Id_n9, <<"N">>, <<"c">>, Id_t1)]

\* a legacy file without a container id whose id no node of the document
\* has, in the folder of the tab, under the file name of SeedB
SeedR == [path |-> <<sanitize(<<"A", SP, "b">>), G_JS>>,
          content |-> LegacyFile(Id_n9, <<"Q">>, "", <<>>, <<"c">>)]

SeedTrees ==
    { {}, {SeedA, SeedB}, {SeedA, SeedC}, {SeedB, SeedC}, {SeedAd, SeedBd},
      {SeedW, SeedN}, {SeedB, SeedR} }

TreeFiles(seeds) ==
    [p \in {sd.path : sd \in seeds} |->
        (CHOOSE sd \in seeds : sd.path = p).content]
TreeDirs(seeds) == {Root} \cup {sd.path[1] : sd \in seeds}

\* a flows.json that cannot be read or is no valid JSON
BadDoc == [ok |-> FALSE, nodes |-> <<>>]

\* the constant states of the variables a specification does not use
NoArg == [kind |-> "none"]
NoLast == [op |-> "none"]
NoRes == [done |-> FALSE, text |-> <<>>, body |-> <<>>, meta |-> NoMeta]

---------------------------------------------------------------------------
(* The tools and their user: invocations of nr-extract, nr-sync and        *)
(* nr-migrate, and the edits made between them                             *)

\* what the last step was: the invocation or edit, its arguments, how it
\* ended, the state it started from and the step before it
Step(op, id, path, to, flowsPath, exit, wrote, updated, migrated, moved) ==
    [op |-> op, id |-> id, path |-> path, to |-> to, flows |-> flowsPath,
     exit |-> exit, wrote |-> wrote, updated |-> updated, migrated |-> migrated,
     moved |-> moved,
     pre |-> [doc |-> doc, files |-> files, dirs |-> dirs],
     prev |-> [op |-> last.op, id |-> last.id, path |-> last.path,
               to |-> last.to, flows |-> last.flows, exit |-> last.exit,
               wrote |-> last.wrote]]

Init ==
    /\ doc \in {Doc0, BadDoc}
    /\ \/ \E seeds \in SeedTrees :
             /\ files = TreeFiles(seeds)
             /\ dirs = TreeDirs(seeds)
       \/ /\ files = NoFiles
          /\ dirs = {}
    /\ last = [op |-> "init", id |-> <<>>, path |-> NoPath, to |-> NoPath,
               flows |-> FALSE, exit |-> 0, wrote |-> FALSE, updated |-> 0,
               migrated |-> 0,
               moved |-> 0,
               pre |-> [doc |-> Doc0, files |-> NoFiles, dirs |-> {Root}],
               prev |-> [op |-> "init", id |-> <<>>, path |-> NoPath,
                         to |-> NoPath, flows |-> FALSE, exit |-> 0,
               wrote |-> FALSE]]
    /\ steps = 0
    /\ arg = NoArg
    /\ res = NoRes

\* nr-extract <nodeId>
ExtractDone(nodeId, r) ==
    /\ files' = r.files
    /\ dirs' = r.dirs
    /\ last' = Step("extract", nodeId, NoPath, NoPath, FALSE, r.exit, FALSE, 0, 0, 0)

Extract(nodeId) ==
    /\ steps < MaxSteps
    /\ ExtractDone(nodeId, ExtractRun(doc, files, dirs, nodeId))
    /\ steps' = steps + 1
    /\ UNCHANGED <<doc, arg, res>>

\* nr-sync
SyncDone(r) ==
    /\ doc' = r.doc
    /\ last' = Step("sync", <<>>, NoPath, NoPath, FALSE, r.exit, r.wrote, r.updated, 0, 0)

Sync ==
    /\ steps < MaxSteps
    /\ SyncDone(SyncRun(doc, files, dirs))
    /\ steps' = steps + 1
    /\ UNCHANGED <<files, dirs, arg, res>>

\* nr-migrate, with or without --flows
MigrateEnd(flowsPath, r) ==
    /\ files' = r.files
    /\ dirs' = r.dirs
    /\ last' = Step("migrate", <<>>, NoPath, NoPath, flowsPath, r.exit, FALSE, 0,
                    r.migrated, r.moved)

Migrate(flowsPath) ==
    /\ steps < MaxSteps
    /\ MigrateEnd(flowsPath, MigrateRun(doc, files, dirs, flowsPath))
    /\ steps' = steps + 1
    /\ UNCHANGED <<doc, arg, res>>

\* the user moves a function node to another container in Node-RED
MoveNode(i, z) ==
    /\ steps < MaxSteps
    /\ doc.ok
    /\ doc.nodes[i].type = "function"
    /\ doc.nodes[i].z # z
    /\ doc' = [doc EXCEPT !.nodes[i].z = z]
    /\ last' = Step("movenode", doc.nodes[i].id, NoPath, NoPath, FALSE, 0, FALSE, 0, 0, 0)
    /\ steps' = steps + 1
    /\ UNCHANGED <<files, dirs, arg, res>>

\* the user moves a script file into the folder of the container c, its
\* text left as it was
MoveFile(p, c) ==
    /\ steps < MaxSteps
    /\ doc.ok
    /\ p \in DOMAIN files
    /\ IsContainer(doc.nodes[c])
    /\ LET to == <<sanitize(ContainerLabel(doc.nodes[c])), p[2]>>
       IN /\ to \notin DOMAIN files
          /\ files' = RenameFile(files, p, to)
          /\ dirs' = dirs \cup {to[1]}
          /\ last' = Step("movefile", doc.nodes[c].id, p, to, FALSE, 0, FALSE, 0, 0, 0)
    /\ steps' = steps + 1
    /\ UNCHANGED <<doc, arg, res>>

\* the positional argument: the id of a node, of no node, or none
ExtractIds == {Id_n1, Id_n2, Id_n9, <<>>}
NodeZs == {Id_t1, Id_s1, <<>>}

Next ==
    \/ \E nodeId \in ExtractIds : Extract(nodeId)
    \/ Sync
    \/ \E flowsPath \in BOOLEAN : Migrate(flowsPath)
    \/ \E i \in 1..Len(doc.nodes), z \in NodeZs : MoveNode(i, z)
    \/ \E p \in DOMAIN files, c \in 1..Len(doc.nodes) : MoveFile(p, c)

Spec == Init /\ [][Next]_vars

---------------------------------------------------------------------------
(* Wrap then unwrap, on drawn bodies (utils.ts) *)

BodyLexemes == {"a", SP, NL, "};", "/**", "*/"}

Bodies == UNION {[1..n -> BodyLexemes] : n \in 1..MaxBodyLen}

WrapArgs ==
    [kind : {"wrap"}, id : {Id_n1}, name : {<<>>, <<"F">>}, body : Bodies,
     z : {Id_t1}]

InitWrap ==
    /\ arg \in WrapArgs
    /\ res = NoRes
    /\ doc = Doc0
    /\ files = NoFiles
    /\ dirs = {Root}
    /\ last = NoLast
    /\ steps = 0

\* prepareScriptContent(wrapScriptContent(id, name, body, z))
Unwrapped(text) ==
    [NoRes EXCEPT !.done = TRUE, !.text = text,
                  !.body = prepareScriptContent(text), !.meta = getMetadata(text)]

WrapUnwrap ==
    /\ ~res.done
    /\ res' = Unwrapped(wrapScriptContent(arg.id, arg.name, arg.body, arg.z))
    /\ UNCHANGED <<doc, files, dirs, last, steps, arg>>

NextWrap == WrapUnwrap

SpecWrap == InitWrap /\ [][NextWrap]_vars

\* normalize(b): trailing white space trimmed on each line
NormalizeLines(b) ==
    LET ls == SplitLines(b)
    IN JoinLines([i \in 1..Len(ls) |-> TrimEnd(ls[i])])

\* C1: for every non-empty body b and every id, name and z,
\* prepareScriptContent(wrapScriptContent(id, name, b, z)) is b with the
\* trailing white space of each line trimmed.
C1_RoundTrip == res.done => res.body = NormalizeLines(arg.body)

---------------------------------------------------------------------------
(* Decoding the metadata of drawn file layouts (utils.ts) *)

\* the structured block as wrapScriptContent writes it
StructuredText(id, name, z) ==
    <<"/**", NL>>
    \o <<SP, "*", SP, "@nr-id", SP>> \o id \o <<NL>>
    \o <<SP, "*", SP, "@nr-name", SP>> \o name \o <<NL>>
    \o <<SP, "*", SP, "@nr-z", SP>> \o z \o <<NL>>
    \o <<SP, "*/">>

\* what a file is made of: a legacy block (of n1, in t1), a legacy block
\* with an id and a name only (of n9), a structured block (of n2, in s1), a
\* doc comment of the script, the wrapped script
BlockKinds == {"legacy", "legacyNoZ", "structured", "doc", "code"}

BlockText(kind) ==
    CASE kind = "legacy" -> LegacyText(Id_n1, <<"F">>, "K:z", Id_t1)
      [] kind = "legacyNoZ" -> LegacyText(Id_n9, <<"F">>, "", <<>>)
      [] kind = "structured" -> StructuredText(Id_n2, <<"G">>, Id_s1)
      [] kind = "doc" -> DocComment
      [] kind = "code" -> <<"HDR", NL>> \o Indent \o <<"a", NL, "};">>

Layouts == UNION {[1..n -> BlockKinds] : n \in 1..MaxBlocks}

RECURSIVE LayoutText(_)
LayoutText(l) ==
    IF l = <<>> THEN <<>> ELSE BlockText(l[1]) \o <<NL>> \o LayoutText(Tail(l))

MetaArgs == {[kind |-> "meta", layout |-> l, content |-> LayoutText(l)] : l \in Layouts}

InitMeta ==
    /\ arg \in MetaArgs
    /\ res = NoRes
    /\ doc = Doc0
    /\ files = NoFiles
    /\ dirs = {Root}
    /\ last = NoLast
    /\ steps = 0

\* getMetadata(content)
Decode ==
    /\ ~res.done
    /\ res' = [NoRes EXCEPT !.done = TRUE, !.meta = getMetadata(arg.content)]
    /\ UNCHANGED <<doc, files, dirs, last, steps, arg>>

NextMeta == Decode

SpecMeta == InitMeta /\ [][NextMeta]_vars

---------------------------------------------------------------------------
(* Properties of the tools *)

\* the content decodes, in either format, to this id
Carries(content, id) == getMetadata(content).ok /\ getMetadata(content).id = id

\* the ids the script files of a tree carry
CarriedIds(fs) ==
    {getMetadata(fs[p]).id :
        p \in {q \in DOMAIN fs : IsScript(q[2]) /\ getMetadata(fs[q]).ok}}

\* the label of the tab or the name of the subflow whose id is z, 'global'
\* when there is none
LabelOf(nodes, z) ==
    IF \E i \in 1..Len(nodes) : nodes[i].type \in {"tab", "subflow"} /\ nodes[i].id = z
    THEN LET c == CHOOSE i \in 1..Len(nodes) :
                     nodes[i].type \in {"tab", "subflow"} /\ nodes[i].id = z
         IN IF nodes[c].type = "tab" THEN nodes[c].label ELSE nodes[c].name
    ELSE <<"g", "l", "o", "b", "a", "l">>

\* the tags of the first doc comment of a content
StructuredOf(content) == JsdocTags(JSDOC_METADATA_REGEX(content))

\* a file of the legacy format: no structured block decodes, the legacy one does
IsLegacyFormat(content) ==
    /\ Falsy(StructuredOf(content).id) \/ Falsy(StructuredOf(content).z)
    /\ LegacyBlock(content).found
    /\ LegacyBlock(content).ok

\* z || tabId of a parsed legacy block
LegacyZ(b) == IF ~Falsy(b.data["K:z"]) THEN b.data["K:z"] ELSE b.data["K:tabId"]

\* migrate considers the file: a script that is no test or spec file
Eligible(p) == IsScript(p[2]) /\ ~IsExcluded(p[2])

\* C2: when a file that carries the node's id, in either format, stands at a
\* path other than the canonical one, a successful extract leaves the file at
\* the canonical path, nothing at the old path, and exactly one file that
\* carries the id.
C2_ExtractMoves ==
    (last.op = "extract" /\ last.exit = 0) =>
        LET target == <<sanitize(LabelOf(doc.nodes, doc.nodes[FindNode(doc.nodes, last.id)].z)),
                        sanitize(doc.nodes[FindNode(doc.nodes, last.id)].name) \o JS>>
            old == {p \in DOMAIN last.pre.files :
                       /\ IsScript(p[2])
                       /\ p # target
                       /\ Carries(last.pre.files[p], last.id)}
        IN old # {} =>
              /\ target \in DOMAIN files
              /\ \A p \in old : p \notin DOMAIN files
              /\ Cardinality({p \in DOMAIN files : Carries(files[p], last.id)}) = 1

\* C3: a sync that follows a sync, the files unchanged in between, changes no
\* node and writes no document.
C3_SyncIdempotent ==
    (last.op = "sync" /\ last.prev.op = "sync") =>
        (~last.wrote /\ doc = last.pre.doc)

\* a second sync after one that wrote the document
C3_Witness ==
    /\ last.op = "sync"
    /\ last.prev.op = "sync"
    /\ last.prev.wrote
    /\ last.exit = 0

\* C4: sync keeps the number and the order of the nodes, changes no field of
\* a node but func and z, and changes no node whose id no script file carries.
C4_SyncFrame ==
    last.op = "sync" =>
        /\ doc.ok = last.pre.doc.ok
        /\ Len(doc.nodes) = Len(last.pre.doc.nodes)
        /\ \A i \in 1..Len(doc.nodes) :
              /\ [last.pre.doc.nodes[i] EXCEPT !.func = doc.nodes[i].func,
                                               !.z = doc.nodes[i].z] = doc.nodes[i]
              /\ doc.nodes[i] # last.pre.doc.nodes[i]
                    => last.pre.doc.nodes[i].id \in CarriedIds(files)

\* a sync that changed the func and the z of a node and left another node alone
C4_Witness ==
    /\ last.op = "sync"
    /\ last.wrote
    /\ \E i \in 1..Len(doc.nodes) :
          /\ doc.nodes[i].func # last.pre.doc.nodes[i].func
          /\ doc.nodes[i].z # last.pre.doc.nodes[i].z
    /\ \E i \in 1..Len(doc.nodes) :
          /\ doc.nodes[i].type = "function"
          /\ doc.nodes[i].id \notin CarriedIds(files)

\* C5: after a script file was moved into the folder of a tab or subflow, its
\* text unchanged, the next sync leaves the node of the file's id with that
\* container as its z.
C5_MovedFileSetsContainer ==
    (last.op = "sync" /\ last.exit = 0 /\ last.prev.op = "movefile") =>
        \/ last.prev.to \notin DOMAIN files
        \/ ~Eligible(last.prev.to)
        \/ ~getMetadata(files[last.prev.to]).ok
        \/ FlowMapGet(doc.nodes, getMetadata(files[last.prev.to]).id) = 0
        \/ doc.nodes[FlowMapGet(doc.nodes, getMetadata(files[last.prev.to]).id)].z
              = last.prev.id

\* C6: after a successful extract the file of a named node stands at
\* root/<slug of the container's label>/<slug of the node's name>.js, the
\* label being that of the tab, or the name of the subflow, whose id is the
\* node's z, and 'global' when the node's z is the id of no tab or subflow,
\* wherever the file stood before.
C6_CanonicalPath ==
    (last.op = "extract" /\ last.exit = 0) =>
        LET n == doc.nodes[FindNode(doc.nodes, last.id)]
            p == <<sanitize(LabelOf(doc.nodes, n.z)), sanitize(n.name) \o JS>>
        IN /\ p \in DOMAIN files
           /\ p[1] \in dirs
           /\ Includes(files[p], <<"@nr-id", SP>> \o n.id \o <<NL>>)
           /\ Includes(files[p], IndentBody(n.func))

\* an extract that moved a file of a node whose z is the id of no container
C6_Witness ==
    /\ last.op = "extract"
    /\ last.exit = 0
    /\ FindNode(doc.nodes, last.id) # 0
    /\ \A i \in 1..Len(doc.nodes) :
          doc.nodes[i].id # doc.nodes[FindNode(doc.nodes, last.id)].z
    /\ \E q \in DOMAIN last.pre.files : q \notin DOMAIN files

\* the files of a tree that are no test or spec files
Unexcluded(fs) == [p \in {q \in DOMAIN fs : ~IsExcluded(q[2])} |-> fs[p]]

\* C7: sync leaves the document as it would were the '.spec.' and '.test.'
\* files not there, and migrate leaves every such file where and as it was.
C7_ExcludedSkipped ==
    /\ last.op = "sync" =>
          doc = SyncRun(last.pre.doc, Unexcluded(files), dirs).doc
    /\ last.op = "migrate" =>
          \A p \in DOMAIN last.pre.files :
              IsExcluded(p[2]) =>
                  p \in DOMAIN files /\ files[p] = last.pre.files[p]

\* C8: a content that holds a legacy block and a structured block decodes to
\* the id, name and z of the structured block, wherever the blocks and the
\* other comments stand.
C8_StructuredWins ==
    (/\ res.done
     /\ \E i \in 1..Len(arg.layout) : arg.layout[i] = "legacy"
     /\ \E i \in 1..Len(arg.layout) : arg.layout[i] = "structured")
    => res.meta = [ok |-> TRUE, id |-> Id_n2, name |-> <<"G">>, z |-> Id_s1]

\* C9: after a migrate with the document, every eligible legacy file that had
\* no container id, and whose id is that of a function node with a z, stands
\* at root/<slug of the container's label>/<its file name> with a structured
\* block of that id and that z.
C9_Backfill ==
    (last.op = "migrate" /\ last.flows /\ last.exit = 0) =>
        \A p \in DOMAIN last.pre.files :
            LET c == last.pre.files[p]
                id == LegacyBlock(c).data["K:id"]
                t == <<sanitize(LabelOf(doc.nodes, NodeZGet(doc.nodes, id))), p[2]>>
            IN (/\ Eligible(p)
                /\ IsLegacyFormat(c)
                /\ Falsy(LegacyZ(LegacyBlock(c)))
                /\ NodeZHas(doc.nodes, id)
                /\ ~Falsy(NodeZGet(doc.nodes, id)))
               => /\ t \in DOMAIN files
                  /\ StructuredOf(files[t]).id = id
                  /\ StructuredOf(files[t]).z = NodeZGet(doc.nodes, id)

\* C10: after a migrate with the document, every eligible file that had a
\* decodable legacy block with an id and a container id stands in structured
\* form, with that id and that container id, at
\* root/<slug of the container's label>/<its file name>, and no longer at its
\* old path when the two differ.
C10_ConvertRelocate ==
    (last.op = "migrate" /\ last.flows /\ last.exit = 0) =>
        \A p \in DOMAIN last.pre.files :
            LET c == last.pre.files[p]
                b == LegacyBlock(c)
                t == <<sanitize(LabelOf(doc.nodes, LegacyZ(b))), p[2]>>
            IN (/\ Eligible(p)
                /\ IsLegacyFormat(c)
                /\ ~Falsy(b.data["K:id"])
                /\ ~Falsy(LegacyZ(b)))
               => /\ t \in DOMAIN files
                  /\ StructuredOf(files[t]).id = b.data["K:id"]
                  /\ StructuredOf(files[t]).z = LegacyZ(b)
                  /\ (p # t => p \notin DOMAIN files)

\* C11: an invocation of extract, of sync, or of migrate with --flows on a
\* document that cannot be read or parsed ends with a non-zero exit and
\* leaves the document, the files and the directories as they were.
C11_FatalDocument ==
    (/\ last.op \in {"extract", "sync", "migrate"}
     /\ last.op = "migrate" => last.flows
     /\ ~last.pre.doc.ok)
    => /\ last.exit # 0
       /\ doc = last.pre.doc
       /\ files = last.pre.files
       /\ dirs = last.pre.dirs

\* C12: an extract with an id that no node of the document has, or with no
\* id, ends with a non-zero exit and leaves the files, the directories and
\* the document as they were.
C12_ExtractUnknownId ==
    (/\ last.op = "extract"
     /\ Falsy(last.id) \/ \A i \in 1..Len(last.pre.doc.nodes) :
                             last.pre.doc.nodes[i].id # last.id)
    => /\ last.exit # 0
       /\ files = last.pre.files
       /\ dirs = last.pre.dirs
       /\ doc = last.pre.doc

\* an extract of an id of no node, on a readable document, the script root
\* not there
C12_Witness ==
    /\ last.op = "extract"
    /\ last.id = Id_n9
    /\ last.pre.doc.ok
    /\ Root \notin last.pre.dirs
    /\ last.exit = 1

\* the content names this id in a structured tag or in a parsed legacy block
HoldsId(content, id) ==
    \/ Includes(content, <<"@nr-id", SP>> \o id \o <<NL>>)
    \/ /\ LegacyBlock(content).found
       /\ LegacyBlock(content).ok
       /\ LegacyBlock(content).data["K:id"] = id

\* C13: a script file that carries an id before an extract, a sync or a
\* migrate is followed by a file, at some path, that carries the same id:
\* no invocation overwrites the file of one id with the file of another.
C13_FilesPersist ==
    last.op \in {"extract", "sync", "migrate"} =>
        \A p \in DOMAIN last.pre.files :
            (IsScript(p[2]) /\ getMetadata(last.pre.files[p]).ok)
            => \E q \in DOMAIN files :
                  HoldsId(files[q], getMetadata(last.pre.files[p]).id)

---------------------------------------------------------------------------
(* nr-extract --scan: calculateMetrics, buildIdMap, scanFunctions *)

\* the report shows at most this many candidates
ScanLimit == 20

\* most function nodes of a document drawn for the scan
MaxScanNodes == 22

\* the alternatives of COMPLEXITY_REGEX: the keywords stand between word
\* boundaries, the operators anywhere; a keyword is one lexeme of a text
Keywords == {"if", "else", "for", "while", "case", "catch", "switch", "do"}
Operators == {"&&", "||", "?"}

\* \w: a lexeme that is, or is made of, word characters
IsWord(t) ==
    t \in Range(LowerCase) \cup Range(UpperCase) \cup Range(Digits) \cup {"_"} \cup Keywords

\* code.match(COMPLEXITY_REGEX): the positions of the matches
BranchTokens(code) ==
    {i \in 1..Len(code) :
        \/ code[i] \in Operators
        \/ /\ code[i] \in Keywords
           /\ i = 1 \/ ~IsWord(code[i - 1])
           /\ i = Len(code) \/ ~IsWord(code[i + 1])}

\* code.split('\n').filter(l => l.trim().length > 0).length
LinesOfCode(lines) == Cardinality({i \in 1..Len(lines) : Trim(lines[i]) # <<>>})

calculateMetrics(code) ==
    [loc |-> LinesOfCode(SplitLines(code)),
     complexity |-> 1 + Cardinality(BranchTokens(code))]

\* the map buildIdMap returns: idMap.set(meta.id, filepath) in the order of
\* the walk, a later file of an id replacing an earlier one
IdPaths(w, m) ==
    LET got == {i \in 1..Len(w) : m[i].ok /\ ~Falsy(m[i].id)}
    IN [id \in {m[i].id : i \in got} |-> w[MaxOf({i \in got : m[i].id = id})]]
IdsOfWalk(fs, w) == IdPaths(w, WalkMeta(fs, w))
buildIdMap(fs, ds) == IdsOfWalk(fs, Walk(fs, ds))

UnknownTab == <<"U","n","k","n","o","w","n",SP,"T","a","b">>
UnknownSubflow == <<"U","n","k","n","o","w","n",SP,"S","u","b","f","l","o","w">>
GlobalSubflow == <<"G","l","o","b","a","l","/","S","u","b","f","l","o","w">>

\* the tabMap of the scan and tabMap.get(node.z) || 'Global/Subflow'
ScanTabName(flows, z) ==
    LET hits == {i \in 1..Len(flows) : IsContainer(flows[i]) /\ flows[i].id = z}
        c == flows[MaxOf(hits)]
        label == IF c.type = "tab"
                 THEN (IF Falsy(c.label) THEN UnknownTab ELSE c.label)
                 ELSE (IF Falsy(c.name) THEN UnknownSubflow ELSE c.name)
    IN IF hits = {} \/ label = <<>> THEN GlobalSubflow ELSE label

\* what is pushed for one function node with a body
Candidate(flows, node, metrics, exportedMap) ==
    [name |-> IF Falsy(node.name) THEN Unnamed ELSE node.name,
     id |-> node.id,
     loc |-> metrics.loc,
     complexity |-> metrics.complexity,
     exported |-> node.id \in DOMAIN exportedMap,
     tab |-> ScanTabName(flows, node.z)]

\* the candidates in the order of the document
RECURSIVE CandidatesFrom(_, _, _)
CandidatesFrom(flows, i, exportedMap) ==
    IF i > Len(flows) THEN <<>>
    ELSE (IF flows[i].type = "function" /\ ~Falsy(flows[i].func)
          THEN <<Candidate(flows, flows[i], calculateMetrics(flows[i].func), exportedMap)>>
          ELSE <<>>)
         \o CandidatesFrom(flows, i + 1, exportedMap)

\* where a candidate goes in a list sorted by the compare function
\* (a, b) => b.complexity - a.complexity, the sort being stable
InsertCandidate(sorted, c) ==
    LET k == Cardinality({i \in 1..Len(sorted) : sorted[i].complexity >= c.complexity})
    IN SubSeq(sorted, 1, k) \o <<c>> \o SubSeq(sorted, k + 1, Len(sorted))

RECURSIVE SortInto(_, _)
SortInto(sorted, cs) ==
    IF cs = <<>> THEN sorted ELSE SortInto(InsertCandidate(sorted, cs[1]), Tail(cs))

\* a variant of the sort that leaves the candidates in document order
SortCandidates_Unsorted(cs) == cs

\* candidates.sort((a, b) => b.complexity - a.complexity)
SortCandidates(cs) == SortInto(<<>>, cs)

\* candidates.slice(0, 20)
Slice(cs) == SubSeq(cs, 1, IF Len(cs) < ScanLimit THEN Len(cs) ELSE ScanLimit)

\* the rows scanFunctions prints
scanFunctions(flows, fs, ds) ==
    Slice(SortCandidates(CandidatesFrom(flows, 1, buildIdMap(fs, ds))))

\* the id of the i-th function node of a drawn document: "n", "nn", ...
ScanId(i) == [j \in 1..i |-> "n"]

\* the bodies of the drawn nodes: none; no branch token; a keyword that is
\* part of a longer word; one keyword; two operators and a keyword
ScanBody(k) ==
    CASE k = 0 -> <<>>
      [] k = 1 -> <<"a">>
      [] k = 2 -> <<"if", "a">>
      [] k = 3 -> <<"if", SP, "a">>
      [] k = 4 -> <<"a", SP, "&&", NL, NL, "?", SP, "do">>

\* a document of a tab, a node of another type and n function nodes, the
\* second of them without a body
ScanDoc(n, pat) ==
    [ok |-> TRUE,
     nodes |-> << Node(Id_t1, "tab", Undef, <<"A", SP, "b">>, Undef, Undef),
                  Node(Id_i1, "inject", <<"I">>, Undef, Id_t1, <<"if">>) >>
               \o [i \in 1..n |->
                     Node(ScanId(i), "function", <<"F">>, Undef,
                          IF i % 2 = 0 THEN Id_t1 ELSE Undef,
                          ScanBody(IF i = 2 THEN 0 ELSE 1 + ((i * pat) % 4)))]]

\* the script roots of the scan: none, empty, the scripts of the nodes 1 and
\* 3, the latter a '.spec.' file
ScanSeed1 == [path |-> <<Root, F_JS>>,
              content |-> wrapScriptContent(ScanId(1), <<"F">>, <<"a">>, Id_t1)]
ScanSeed3 == [path |-> <<Root, G_SPEC_JS>>,
              content |-> LegacyFile(ScanId(3), <<"F">>, "", <<>>, <<"a">>)]
ScanTrees == { {}, {ScanSeed1}, {ScanSeed1, ScanSeed3} }

ScanArgs == [kind : {"scan"}, n : 0..MaxScanNodes, pat : 1..3, seeds : ScanTrees]

NoReport == [done |-> FALSE, report |-> <<>>]

InitScan ==
    /\ arg \in ScanArgs
    /\ doc = ScanDoc(arg.n, arg.pat)
    /\ files = TreeFiles(arg.seeds)
    /\ dirs = TreeDirs(arg.seeds)
    /\ res = NoReport
    /\ last = NoLast
    /\ steps = 0

\* a variant of the scan that creates the script root when it is missing
Scan_Mkdir ==
    /\ ~res.done
    /\ res' = [done |-> TRUE, report |-> scanFunctions(doc.nodes, files, dirs)]
    /\ dirs' = dirs \cup {Root}
    /\ UNCHANGED <<doc, files, last, steps, arg>>

\* nr-extract --scan
Scan ==
    /\ ~res.done
    /\ res' = [done |-> TRUE, report |-> scanFunctions(doc.nodes, files, dirs)]
    /\ UNCHANGED <<doc, files, dirs, last, steps, arg>>

NextScan == Scan

SpecScan == InitScan /\ [][NextScan]_vars

\* the positions in the document of the function nodes that have a body
ScanCandidates == {i \in 1..Len(doc.nodes) :
                      doc.nodes[i].type = "function" /\ ~Falsy(doc.nodes[i].func)}

\* the position in the document of the node of a row
RowNode(r) == CHOOSE i \in 1..Len(doc.nodes) : doc.nodes[i].id = r.id

\* the row r stands before the candidate node i in the order of the report
RowBefore(r, i) ==
    \/ r.complexity > 1 + Cardinality(BranchTokens(doc.nodes[i].func))
    \/ /\ r.complexity = 1 + Cardinality(BranchTokens(doc.nodes[i].func))
       /\ RowNode(r) < i

\* C14: the scan reports function nodes with a non-empty body only, each with
\* complexity 1 + its branch tokens, in descending complexity and, among
\* equals, in document order; it reports the first 20 of them at most; a row
\* is marked extracted exactly when a script file of the root carries its id.
C14_ScanReport ==
    res.done =>
        /\ Len(res.report) =
              (IF Cardinality(ScanCandidates) < 20 THEN Cardinality(ScanCandidates) ELSE 20)
        /\ \A k \in 1..Len(res.report) :
              /\ RowNode(res.report[k]) \in ScanCandidates
              /\ res.report[k].complexity =
                    1 + Cardinality(BranchTokens(doc.nodes[RowNode(res.report[k])].func))
              /\ res.report[k].exported <=> res.report[k].id \in CarriedIds(files)
              /\ \A j \in (k + 1)..Len(res.report) :
                    RowBefore(res.report[k], RowNode(res.report[j]))
              /\ \A i \in ScanCandidates :
                    (\A j \in 1..Len(res.report) : RowNode(res.report[j]) # i)
                    => RowBefore(res.report[k], i)

\* a scan of more than 20 candidates, two reported rows of equal complexity,
\* one row extracted and one not
C14_Witness ==
    /\ res.done
    /\ Cardinality(ScanCandidates) > 20
    /\ Len(res.report) = 20
    /\ \E k \in 1..19 : res.report[k].complexity = res.report[k + 1].complexity
    /\ \E k \in 1..19 : res.report[k].complexity > res.report[k + 1].complexity
    /\ \E k \in 1..20 : res.report[k].exported
    /\ \E k \in 1..20 : ~res.report[k].exported

\* C15: a content made of the wrapped function and a legacy block with an id
\* and a name but no z and no tabId, in either order, decodes to that id, that
\* name and the z 'global'.
C15_LegacyDefaultZ ==
    (/\ res.done
     /\ arg.layout \in {<<"code", "legacyNoZ">>, <<"legacyNoZ", "code">>})
    => res.meta = [ok |-> TRUE, id |-> Id_n9, name |-> <<"F">>, z |-> Global]

\* the content includes 'module.exports = function' or its async form
HasWrapper(content) == \E i \in 1..Len(content) : content[i] \in {"HDR", "AHDR"}

\* C16: a migrate leaves every script file that holds a legacy block but no
\* wrapper where it was and as it was.
C16_WrapperRequired ==
    (last.op = "migrate" /\ last.exit = 0) =>
        \A p \in DOMAIN last.pre.files :
            (/\ IsScript(p[2]) /\ ~IsExcluded(p[2])
             /\ METADATA_REGEX(last.pre.files[p]).found
             /\ ~HasWrapper(last.pre.files[p]))
            => p \in DOMAIN files /\ files[p] = last.pre.files[p]

\* the body holds the token '};' on a line that is not its last
EmbeddedBrace(b) ==
    \E i \in 1..Len(b) : b[i] = "};" /\ \E j \in (i + 1)..Len(b) : b[j] = NL

\* the text of a body without its white space
Visible(b) == SelectSeq(b, LAMBDA t : ~IsWs(t))

\* C17: for a body with '};' on a line that is not its last, the unwrap of the
\* wrapped file returns the whole text of the body, the part after the
\* embedded '};' included: nothing of it is cut off.
C17_RightmostBrace ==
    (res.done /\ EmbeddedBrace(arg.body)) => Visible(res.body) = Visible(arg.body)

\* the scripts a sync collected and the ids among them that a node has
Collected == scanScripts(last.pre.files, last.pre.dirs)
Matched == {id \in DOMAIN Collected : FlowMapGet(last.pre.doc.nodes, id) # 0}
NodeBefore(id) == last.pre.doc.nodes[FlowMapGet(last.pre.doc.nodes, id)]
NodeAfter(id) == doc.nodes[FlowMapGet(last.pre.doc.nodes, id)]

\* the file of an id differs from its node in the body or in a given container
Differs(id) ==
    \/ NodeBefore(id).func # prepareScriptContent(Collected[id].content)
    \/ ~Falsy(Collected[id].z) /\ NodeBefore(id).z # Collected[id].z

\* C18: after a sync of a readable document, the node of every collected id
\* has the unwrapped content of the file as its func, the z of the file's
\* metadata when that z is not empty and its former z when it is empty; the
\* number of changes counted is the number of those nodes that differed in one of
\* the two fields.
C18_SyncUpdateRule ==
    (last.op = "sync" /\ last.exit = 0 /\ last.pre.doc.ok) =>
        LET c == Collected
            at(id) == FlowMapGet(last.pre.doc.nodes, id)
            m == {id \in DOMAIN c : at(id) # 0}
            want(id) == [func |-> prepareScriptContent(c[id].content),
                         z |-> IF Falsy(c[id].z) THEN last.pre.doc.nodes[at(id)].z
                               ELSE c[id].z]
        IN  /\ \A id \in m : /\ doc.nodes[at(id)].func = want(id).func
                             /\ doc.nodes[at(id)].z = want(id).z
            /\ last.updated =
                  Cardinality({id \in m :
                      \/ last.pre.doc.nodes[at(id)].func # want(id).func
                      \/ last.pre.doc.nodes[at(id)].z # want(id).z})

\* a sync of two collected files: one changes the body and the container of its
\* node, the other has no container and leaves the z of its node
C18_Witness ==
    /\ last.op = "sync" /\ last.exit = 0 /\ last.pre.doc.ok
    /\ \E id \in Matched :
          /\ NodeBefore(id).func # NodeAfter(id).func
          /\ NodeBefore(id).z # NodeAfter(id).z
    /\ \E id \in Matched : Falsy(Collected[id].z) /\ ~Falsy(NodeBefore(id).z)

---------------------------------------------------------------------------
(* One run of nr-sync, statement by statement *)

\* the keys of scriptUpdates in the order of Object.entries: the order in
\* which the walk first met each id
RECURSIVE EntryOrder(_, _)
EntryOrder(m, i) ==
    IF i > Len(m) THEN <<>>
    ELSE (IF /\ m[i].ok /\ ~Falsy(m[i].id)
             /\ \A j \in 1..(i - 1) : ~(m[j].ok /\ m[j].id = m[i].id)
          THEN <<m[i].id>> ELSE <<>>) \o EntryOrder(m, i + 1)

ScriptEntries(fs, w, m) == [updates |-> Updates(fs, w, m), order |-> EntryOrder(m, 1)]
EntriesOfWalk(fs, w) == ScriptEntries(fs, w, WalkMeta(fs, w))
CollectEntries(fs, ds) == EntriesOfWalk(fs, Walk(fs, ds))

\* the documents a run meets: the function nodes as Doc0 has them or as the
\* files of the trees have them
DocWith(f1, f2, z2) ==
    [Doc0 EXCEPT !.nodes[3].func = f1, !.nodes[4].func = f2, !.nodes[4].z = z2]
RunDocs ==
    {BadDoc} \cup {DocWith(f1, f2, z2) : f1 \in {<<"a">>, <<"b">>},
                                         f2 \in {<<"a", NL, "b">>, <<"b">>},
                                         z2 \in {Id_s1, Id_t1}}

\* the state of the process: where it stands, scriptUpdates and its keys yet
\* to visit, flows in memory, updatedCount, the writes of the document so far
Proc(pc, updates, todo, flows, updatedCount, writes, exit) ==
    [pc |-> pc, updates |-> updates, todo |-> todo, flows |-> flows,
     updatedCount |-> updatedCount, writes |-> writes, exit |-> exit]
NoUpdates == [id \in {} |-> <<>>]
ProcStart == Proc("start", NoUpdates, <<>>, <<>>, 0, 0, 0)

InitRun ==
    /\ doc \in RunDocs
    /\ \/ \E seeds \in SeedTrees :
             /\ files = TreeFiles(seeds)
             /\ dirs = TreeDirs(seeds)
       \/ /\ files = NoFiles
          /\ dirs = {}
    /\ arg = [kind |-> "sync", doc |-> doc]
    /\ res = ProcStart
    /\ last = NoLast
    /\ steps = 0

\* existsSync(SRC_DIR), scanScripts(SRC_DIR), updateCount === 0
Scanned(e) ==
    IF DOMAIN e.updates = {} THEN [ProcStart EXCEPT !.pc = "done"]
    ELSE [ProcStart EXCEPT !.pc = "read", !.updates = e.updates, !.todo = e.order]

RunScan ==
    /\ res.pc = "start"
    /\ res' = IF Root \notin dirs THEN [ProcStart EXCEPT !.pc = "done", !.exit = 1]
              ELSE Scanned(CollectEntries(files, dirs))
    /\ UNCHANGED <<doc, files, dirs, last, steps, arg>>

\* flows = JSON.parse(readFileSync(FLOWS_PATH))
RunRead ==
    /\ res.pc = "read"
    /\ res' = IF ~doc.ok THEN [res EXCEPT !.pc = "done", !.exit = 1]
              ELSE [res EXCEPT !.pc = "loop", !.flows = doc.nodes]
    /\ UNCHANGED <<doc, files, dirs, last, steps, arg>>

\* one turn of the loop over Object.entries(scriptUpdates)
Visited(st, i, node) ==
    [st EXCEPT !.todo = Tail(st.todo),
               !.flows = IF i = 0 THEN st.flows ELSE [st.flows EXCEPT ![i] = node],
               !.updatedCount = IF i # 0 /\ node # st.flows[i] THEN @ + 1 ELSE @]

VisitNode(st, i, data) ==
    Visited(st, i, IF i = 0 THEN data ELSE SyncNode(st.flows[i], data))

RunEntry ==
    /\ res.pc = "loop"
    /\ res.todo # <<>>
    /\ res' = VisitNode(res, FlowMapGet(res.flows, Head(res.todo)),
                        res.updates[Head(res.todo)])
    /\ UNCHANGED <<doc, files, dirs, last, steps, arg>>

\* a variant of WriteDue that writes whatever the count
WriteDue_Whatever(st) == TRUE

\* updatedCount > 0
WriteDue(st) == st.updatedCount > 0

\* writeFileSync(FLOWS_PATH, JSON.stringify(flows, null, 4))
RunWrite ==
    /\ res.pc = "loop"
    /\ res.todo = <<>>
    /\ WriteDue(res)
    /\ doc' = [doc EXCEPT !.nodes = res.flows]
    /\ res' = [res EXCEPT !.pc = "done", !.writes = @ + 1]
    /\ UNCHANGED <<files, dirs, last, steps, arg>>

\* "All flows are already up to date."
RunEnd ==
    /\ res.pc = "loop"
    /\ res.todo = <<>>
    /\ ~WriteDue(res)
    /\ res' = [res EXCEPT !.pc = "done"]
    /\ UNCHANGED <<doc, files, dirs, last, steps, arg>>

NextRun == RunScan \/ RunRead \/ RunEntry \/ RunWrite \/ RunEnd

SpecRun == InitRun /\ [][NextRun]_vars

\* C19: in a run of sync the document file is written at most once, by a step
\* taken after every collected file was visited and when at least one node
\* changed; no other step changes the document file, so a run in which no node
\* changed or no script with metadata was found never writes it.
C19_SingleWrite ==
    [][(doc' # doc \/ res'.writes # res.writes) =>
          /\ res.writes = 0 /\ res'.writes = 1
          /\ res.pc = "loop" /\ res.todo = <<>> /\ res'.pc = "done"
          /\ res.updatedCount > 0
          /\ res.flows # arg.doc.nodes
          /\ doc = arg.doc
          /\ doc'.nodes = res.flows]_vars

\* a finished run that visited two collected files and wrote the document
C19_Witness ==
    /\ res.pc = "done"
    /\ res.writes = 1
    /\ Cardinality(DOMAIN res.updates) = 2
    /\ doc # arg.doc

\* the ids of the nodes of a document, in its order
NodeIds(nodes) == [i \in 1..Len(nodes) |-> nodes[i].id]

\* C20: a sync of a readable document that collected a file whose id no node
\* has ends with exit 0, keeps the nodes of the document and their order, adds
\* none, and still gives every collected file whose id a node has to its node.
C20_UnknownIdSkipped ==
    (last.op = "sync" /\ last.pre.doc.ok /\ Root \in last.pre.dirs) =>
        LET c == Collected
            at(id) == FlowMapGet(last.pre.doc.nodes, id)
            m == {id \in DOMAIN c : at(id) # 0}
        IN  DOMAIN c \ m # {} =>
              /\ last.exit = 0
              /\ doc.ok
              /\ NodeIds(doc.nodes) = NodeIds(last.pre.doc.nodes)
              /\ \A id \in m :
                    /\ doc.nodes[at(id)].func = prepareScriptContent(c[id].content)
                    /\ ~Falsy(c[id].z) => doc.nodes[at(id)].z = c[id].z

\* a sync that collected a file of an id no node has, before a file that
\* changed its node
C20_Witness ==
    /\ last.op = "sync" /\ last.pre.doc.ok /\ last.exit = 0
    /\ Id_n9 \in DOMAIN Collected \ Matched
    /\ \E id \in Matched : NodeAfter(id) # NodeBefore(id)
    /\ last.wrote

---------------------------------------------------------------------------
(* Decoding drawn legacy blocks (utils.ts) *)

\* one member of the block: "key": "value"
Member(key, val) == Indent \o <<key, SP, QT>> \o val \o <<QT>>

\* the member of a container key: absent, with the empty string, with an id
ZMember(key, how, id) ==
    CASE how = "none" -> <<>>
      [] how = "empty" -> <<Member(key, <<>>)>>
      [] how = "set" -> <<Member(key, id)>>

RECURSIVE JoinMembers(_)
JoinMembers(ms) ==
    IF Len(ms) = 1 THEN ms[1] ELSE ms[1] \o <<",", NL>> \o JoinMembers(Tail(ms))

\* a legacy block of n1 named F with z (t1) and tabId (s1) as drawn, with or
\* without its braces, with or without a comma after its last member
DrawnBlock(z, tabId, braces, comma) ==
    <<"/*L", NL>>
    \o (IF braces THEN <<"{", NL>> ELSE <<>>)
    \o JoinMembers(<<Member("K:id", Id_n1), Member("K:name", <<"F">>)>>
                   \o ZMember("K:tabId", tabId, Id_s1) \o ZMember("K:z", z, Id_t1))
    \o (IF comma THEN <<",">> ELSE <<>>)
    \o (IF braces THEN <<NL, "}">> ELSE <<>>)
    \o <<NL, "*/">>

\* the block after or before the wrapped script
DrawnFile(block, first) ==
    IF first THEN block \o <<NL>> \o BlockText("code") \o <<NL>>
    ELSE BlockText("code") \o <<NL>> \o block \o <<NL>>

LegacyArgs ==
    {[kind |-> "legacy", z |-> z, tabId |-> t, braces |-> b, comma |-> c,
      content |-> DrawnFile(DrawnBlock(z, t, b, c), f)] :
        z \in {"none", "empty", "set"}, t \in {"none", "empty", "set"},
        b \in BOOLEAN, c \in BOOLEAN, f \in BOOLEAN}

InitLegacy ==
    /\ arg \in LegacyArgs
    /\ res = NoRes
    /\ doc = Doc0
    /\ files = NoFiles
    /\ dirs = {Root}
    /\ last = NoLast
    /\ steps = 0

SpecLegacy == InitLegacy /\ [][NextMeta]_vars

---------------------------------------------------------------------------
(* Decoding drawn structured blocks (utils.ts) *)

\* the line of a tag: absent, the tag and one space (as wrapScriptContent
\* writes an empty value), the tag and two spaces, the tag and a value
TagLine(tag, how, val) ==
    CASE how = "none" -> <<>>
      [] how = "empty" -> <<SP, "*", SP, tag, SP, NL>>
      [] how = "blank" -> <<SP, "*", SP, tag, SP, SP, NL>>
      [] how = "set" -> <<SP, "*", SP, tag, SP>> \o val \o <<NL>>

\* a structured block of n2 named G in s1, its id and z tags as drawn
DrawnTags(id, z) ==
    <<"/**", NL>>
    \o TagLine("@nr-id", id, Id_n2)
    \o <<SP, "*", SP, "@nr-name", SP, "G", NL>>
    \o TagLine("@nr-z", z, Id_s1)
    \o <<SP, "*/">>

\* no legacy block, the legacy block of n1 in t1, or one that lacks a comma
DrawnLegacy(how) ==
    CASE how = "none" -> <<>>
      [] how = "good" -> LegacyText(Id_n1, <<"F">>, "K:z", Id_t1) \o <<NL>>
      [] how = "malformed" ->
            <<"/*L", NL>> \o Member("K:id", Id_n1) \o <<NL>>
            \o Member("K:name", <<"F">>) \o <<NL, "*/", NL>>

TaggedFile(tags, legacy, first) ==
    IF first THEN tags \o <<NL>> \o BlockText("code") \o <<NL>> \o legacy
    ELSE legacy \o BlockText("code") \o <<NL, NL>> \o tags \o <<NL>>

TagHows == {"none", "empty", "blank", "set"}

TaggedArgs ==
    {[kind |-> "tagged", id |-> i, z |-> z, legacy |-> l,
      content |-> TaggedFile(DrawnTags(i, z), DrawnLegacy(l), f)] :
        i \in TagHows, z \in TagHows, l \in {"none", "good", "malformed"},
        f \in BOOLEAN}

InitTagged ==
    /\ arg \in TaggedArgs
    /\ res = NoRes
    /\ doc = Doc0
    /\ files = NoFiles
    /\ dirs = {Root}
    /\ last = NoLast
    /\ steps = 0

SpecTagged == InitTagged /\ [][NextMeta]_vars

\* C22: a file with a structured block decodes to the id, name and z of that
\* block only when its id tag and its z tag both have a value; when one of
\* them is absent or has none, the file decodes as its legacy block does when
\* it has one that parses, and to none otherwise.
C22_StructuredNeedsIdAndZ ==
    res.done =>
        res.meta = (IF arg.id = "set" /\ arg.z = "set"
                    THEN [ok |-> TRUE, id |-> Id_n2, name |-> <<"G">>, z |-> Id_s1]
                    ELSE IF arg.legacy = "good"
                    THEN [ok |-> TRUE, id |-> Id_n1, name |-> <<"F">>, z |-> Id_t1]
                    ELSE NoMeta)

\* decoded: a block with an id and an empty z beside a legacy block, read as
\* the legacy block
C22_Witness ==
    /\ res.done
    /\ arg.id = "set" /\ arg.z \in {"empty", "blank"} /\ arg.legacy = "good"
    /\ res.meta.ok /\ res.meta.id = Id_n1

---------------------------------------------------------------------------
(* Extract and sync of one drawn node (extract.ts, nr-sync) *)

\* the names, bodies and containers a function node is drawn with
NodeNames == {Undef, <<>>, <<"!">>, <<"F">>}
NodeFuncs == {<<"a">>, <<"a", NL, "b">>, <<NL, "a">>, <<"a", NL>>}
NodeContainers == {Id_t1, Undef, <<>>}

\* a document of the tab "A b" and the function node n1 as drawn
NodeDoc(name, func, z) ==
    [ok |-> TRUE,
     nodes |-> << Node(Id_t1, "tab", Undef, <<"A", SP, "b">>, Undef, Undef),
                  Node(Id_n1, "function", name, Undef, z, func) >>]

\* the script root: empty, or with the legacy file of n1 at root/f.js
NodeTrees == { {}, {SeedA} }

LastAtStart ==
    [op |-> "init", id |-> <<>>, path |-> NoPath, to |-> NoPath,
     flows |-> FALSE, exit |-> 0, wrote |-> FALSE, updated |-> 0,
     migrated |-> 0, moved |-> 0,
     pre |-> [doc |-> Doc0, files |-> NoFiles, dirs |-> {Root}],
     prev |-> [op |-> "init", id |-> <<>>, path |-> NoPath,
               to |-> NoPath, flows |-> FALSE, exit |-> 0,
               wrote |-> FALSE]]

InitNodes ==
    /\ \E name \in NodeNames, func \in NodeFuncs, z \in NodeContainers :
          doc = NodeDoc(name, func, z)
    /\ \/ \E seeds \in NodeTrees :
             /\ files = TreeFiles(seeds)
             /\ dirs = TreeDirs(seeds)
       \/ /\ files = NoFiles
          /\ dirs = {}
    /\ last = LastAtStart
    /\ steps = 0
    /\ arg = NoArg
    /\ res = NoRes

NextNodes == Extract(Id_n1) \/ Sync

SpecNodes == InitNodes /\ [][NextNodes]_vars

\* the node an extract was asked for, in the document before it
Extracted == last.pre.doc.nodes[FindNode(last.pre.doc.nodes, last.id)]

\* the file name the node is to get: the slug of its name, or its id when the
\* name is absent or its slug is empty
NameOrId(node) ==
    (IF Falsy(node.name) \/ sanitize(node.name) = <<>> THEN node.id
     ELSE sanitize(node.name)) \o JS

\* C23: after a successful extract a file of the name <slug of the node's
\* name>.js, or <id>.js when the name is absent or its slug is empty, stands in
\* the folder of the node's container, and the extract has left no file whose
\* name is '.js' alone.
C23_NameFallsBackToId ==
    (last.op = "extract" /\ last.exit = 0) =>
        /\ <<TargetDir(last.pre.doc.nodes, Extracted), NameOrId(Extracted)>>
              \in DOMAIN files
        /\ \A p \in DOMAIN files \ DOMAIN last.pre.files : p[2] # JS

\* the files a migrate could not resolve a container for: eligible, decoding
\* without a z, and no document loaded or no function node of the id in it
Unresolved ==
    {p \in DOMAIN last.pre.files :
        /\ IsScript(p[2]) /\ ~IsExcluded(p[2])
        /\ getMetadata(last.pre.files[p]).ok
        /\ Falsy(getMetadata(last.pre.files[p]).z)
        /\ \/ ~(last.flows /\ last.pre.doc.ok)
           \/ ~NodeZHas(last.pre.doc.nodes, getMetadata(last.pre.files[p]).id)}

\* C24: a migrate leaves every file for which it could resolve no container
\* id at its path with its content.
C24_NoGuessedContainer ==
    (last.op = "migrate" /\ last.exit = 0) =>
        \A p \in Unresolved : p \in DOMAIN files /\ files[p] = last.pre.files[p]

---------------------------------------------------------------------------
(* Walks over a root with a file that fails (nr-sync, migrate, buildIdMap) *)

\* root/e.js, the first file of a walk: one that cannot be read, or one whose
\* legacy block lacks a comma
E_JS == <<"e">> \o JS
SeedU == [path |-> <<Root, E_JS>>, content |-> Unreadable]
SeedM == [path |-> <<Root, E_JS>>,
          content |-> BlockText("code") \o <<NL, NL>> \o DrawnLegacy("malformed")]

WalkTrees ==
    {{x} \cup t : x \in {SeedU, SeedM},
                  t \in {{SeedB}, {SeedA, SeedB}, {SeedN}}}

InitWalk ==
    /\ doc \in RunDocs
    /\ \E seeds \in WalkTrees :
          /\ files = TreeFiles(seeds)
          /\ dirs = TreeDirs(seeds)
    /\ last = LastAtStart
    /\ steps = 0
    /\ arg = NoArg
    /\ res = NoRes

NextWalk == Sync \/ \E flowsPath \in BOOLEAN : Migrate(flowsPath)

SpecWalk == InitWalk /\ [][NextWalk]_vars

\* the script files of a tree that fail: they cannot be read, or no metadata
\* decodes from them
Failing(fs) ==
    {p \in DOMAIN fs : IsScript(p[2]) /\ (fs[p] = Unreadable \/ ~getMetadata(fs[p]).ok)}
Without(fs, ps) == [p \in DOMAIN fs \ ps |-> fs[p]]

\* C25: a sync, a migrate and the index builder do with the other files of the
\* root what they do when the failing files are not there, the failing files
\* stay as they are, and a migrate over an existing root ends with exit 0.
C25_WalkGoesOn ==
    /\ (last.op = "sync" /\ Root \in last.pre.dirs) =>
          /\ doc = SyncRun(last.pre.doc,
                           Without(last.pre.files, Failing(last.pre.files)),
                           last.pre.dirs).doc
          /\ last.exit = (IF last.pre.doc.ok THEN 0 ELSE last.exit)
    /\ (last.op = "migrate" /\ Root \in last.pre.dirs) =>
          /\ last.exit = 0
          /\ Without(files, Failing(last.pre.files))
                = MigrateRun(last.pre.doc,
                             Without(last.pre.files, Failing(last.pre.files)),
                             last.pre.dirs, last.flows).files
          /\ \A p \in Failing(last.pre.files) :
                p \in DOMAIN files /\ files[p] = last.pre.files[p]
    /\ buildIdMap(files, dirs) = buildIdMap(Without(files, Failing(files)), dirs)

---------------------------------------------------------------------------
(* Two files of one id (buildIdMap, nr-sync, nr-extract) *)

\* a second legacy file of n2, with another body and container, at root/h.js
\* (visited after g.js) or at a-b/h.js (visited before g.js)
H_JS == <<"h">> \o JS
SeedD == [path |-> <<Root, H_JS>>,
          content |-> LegacyFile(Id_n2, <<"F">>, "K:z", Id_s1, <<"c">>)]
SeedDd == [path |-> <<sanitize(<<"A", SP, "b">>), H_JS>>,
           content |-> LegacyFile(Id_n2, <<"F">>, "K:z", Id_s1, <<"c">>)]

DupTrees == { {SeedB, SeedD}, {SeedB, SeedDd}, {SeedA, SeedB, SeedD},
              {SeedA, SeedB, SeedDd} }

InitDup ==
    /\ doc \in RunDocs
    /\ \E seeds \in DupTrees :
          /\ files = TreeFiles(seeds)
          /\ dirs = TreeDirs(seeds)
    /\ last = LastAtStart
    /\ steps = 0
    /\ arg = NoArg
    /\ res = NoRes

NextDup == Extract(Id_n2) \/ Sync

SpecDup == InitDup /\ [][NextDup]_vars

\* the files of a tree that carry an id, and the one a walk visits last
Carriers(fs, id) ==
    {p \in DOMAIN fs : IsScript(p[2]) /\ Carries(fs[p], id)}
LastCarrier(fs, ds, id) ==
    LET w == Walk(fs, ds)
    IN w[MaxOf({i \in 1..Len(w) : w[i] \in Carriers(fs, id)})]

\* C26: with two files of one id in the root, the index maps the id to the
\* file the walk visits later, a sync gives the node the body and the z of that
\* file, and an extract of the id takes that file for the existing one: it
\* is the file that stands at the canonical path afterwards, moved there when
\* it stood elsewhere.
C26_LastWriterWins ==
    /\ \A id \in DOMAIN buildIdMap(files, dirs) :
          buildIdMap(files, dirs)[id] = LastCarrier(files, dirs, id)
    /\ (last.op = "sync" /\ last.pre.doc.ok /\ last.exit = 0) =>
          \A id \in Matched :
             LET late == last.pre.files[LastCarrier(last.pre.files, last.pre.dirs, id)]
             IN /\ NodeAfter(id).func = prepareScriptContent(late)
                /\ ~Falsy(getMetadata(late).z) => NodeAfter(id).z = getMetadata(late).z
    /\ (/\ last.op = "extract" /\ last.exit = 0
        /\ Cardinality(Carriers(last.pre.files, last.id)) > 1) =>
          LET late == LastCarrier(last.pre.files, last.pre.dirs, last.id)
              target == TargetPath(last.pre.doc.nodes, Extracted)
          IN /\ target \in DOMAIN files
             /\ late # target => late \notin DOMAIN files

\* C27: a sync that follows a successful extract, the files not touched in
\* between, leaves every node of the document as it was and does not write the
\* document.
C27_ExtractThenSync ==
    (/\ last.op = "sync"
     /\ last.prev.op = "extract" /\ last.prev.exit = 0)
    => /\ doc = last.pre.doc
       /\ ~last.wrote

\* C28: after a successful extract the file at the canonical path of the node
\* decodes to the node's id, to the node's z and, when the node has a name, to
\* that name.
C28_ExtractedFileDecodes ==
    (last.op = "extract" /\ last.exit = 0) =>
        LET target == TargetPath(last.pre.doc.nodes, Extracted)
        IN /\ target \in DOMAIN files
           /\ getMetadata(files[target]).ok
           /\ getMetadata(files[target]).id = Extracted.id
           /\ getMetadata(files[target]).z = Extracted.z
           /\ ~Falsy(Extracted.name) => getMetadata(files[target]).name = Extracted.name

\* C29: a migrate that follows a migrate with the same option and the same
\* document, nothing done in between, converts no file, moves no file and
\* leaves the tree as the first left it.
C29_MigrateIdempotent ==
    (/\ last.op = "migrate" /\ last.exit = 0
     /\ last.prev.op = "migrate" /\ last.prev.exit = 0
     /\ last.prev.flows = last.flows)
    => /\ last.migrated = 0
       /\ last.moved = 0
       /\ files = last.pre.files
       /\ dirs = last.pre.dirs

\* a second migrate after one that converted a file of n2 and moved it into
\* a folder
C29_Witness ==
    /\ last.op = "migrate" /\ last.exit = 0 /\ last.flows
    /\ last.prev.op = "migrate" /\ last.prev.exit = 0 /\ last.prev.flows
    /\ last.pre.doc.ok
    /\ \E p \in DOMAIN files :
          /\ p[1] # Root
          /\ steps = 2
          /\ StructuredOf(files[p]).id = Id_n2

---------------------------------------------------------------------------
(* The four invocations side by side *)

FrameTrees == { {SeedA, SeedB}, {SeedW, SeedN} }

InitFrame ==
    /\ doc \in {Doc0, BadDoc}
    /\ \/ \E seeds \in FrameTrees :
             /\ files = TreeFiles(seeds)
             /\ dirs = TreeDirs(seeds)
       \/ /\ files = NoFiles
          /\ dirs = {}
    /\ last = LastAtStart
    /\ steps = 0
    /\ arg = NoArg
    /\ res = NoReport

NextFrame ==
    \/ \E nodeId \in ExtractIds : Extract(nodeId)
    \/ Sync
    \/ \E flowsPath \in BOOLEAN : Migrate(flowsPath)
    \/ Scan

SpecFrame == InitFrame /\ [][NextFrame]_vars

\* C30: a step of extract or of migrate leaves the document as it is, a step
\* of sync leaves the files and the directories of the script root as they
\* are, and a scan leaves all three.
C30_TargetSideOnly ==
    [][/\ (steps' # steps /\ last'.op \in {"extract", "migrate"}) => doc' = doc
       /\ (steps' # steps /\ last'.op = "sync") => (files' = files /\ dirs' = dirs)
       /\ res' # res => (doc' = doc /\ files' = files /\ dirs' = dirs)]_vars

\* after a scan, an extract that wrote a file and a sync that wrote the
\* document
C30_Witness ==
    /\ res.done
    /\ last.op = "sync" /\ last.wrote
    /\ last.prev.op = "extract" /\ last.prev.exit = 0
    /\ files # NoFiles

===========================================================================
